---- MODULE Spec2Model ----
(***************************************************************************)
(* A model of the storage client's request pipeline:                      *)
(*   - the optional-parameter list of a request (request_parameters.h),   *)
(*   - the LoggingClient decorator (logging_client.cc),                   *)
(*   - the Client facade (client.h) over a RetryClient / RawClient chain, *)
(*     driven by a mock RawClient as in bucket_test.cc.                   *)
(***************************************************************************)
EXTENDS Integers, Sequences, FiniteSets, TLC

\* ------------------------------------------------------------------------
\* Bounds of the model
\* ------------------------------------------------------------------------

\* number of parameter kinds the modelled request declares
NumKinds == 3
\* longest argument list given to set_multiple_parameters
MaxArgs == 2
\* largest retry budget a Client is configured with
MaxBudget == 2

\* ------------------------------------------------------------------------
\* Optional parameters and RequestParameterList (request_parameters.h)
\* ------------------------------------------------------------------------

\* The pool of well-known parameter types the facade documents.
WellKnownParameters ==
  <<"Generation", "UserProject", "Projection", "Prefix", "MaxResults",
    "IfGenerationMatch">>

\* The template argument list Parameters... of the modelled request, in
\* declaration order.
Declared == SubSeq(WellKnownParameters, 1, NumKinds)

Kinds == {Declared[i] : i \in 1..Len(Declared)}

\* Parameter::parameter_name(): the stable textual name of a kind.
parameter_name(kind) ==
  CASE kind = "Generation" -> "generation"
    [] kind = "UserProject" -> "userProject"
    [] kind = "Projection" -> "projection"
    [] kind = "Prefix" -> "prefix"
    [] kind = "MaxResults" -> "maxResults"
    [] kind = "IfGenerationMatch" -> "ifGenerationMatch"

\* The values a parameter is given.
Values == {1, 2}

\* A default-constructed parameter of a kind: it has no value.
DefaultParameter(kind) == [kind |-> kind, has_value |-> FALSE, value |-> 0]

\* The parameter objects of the declared kinds a caller can pass.
ParameterValues ==
  {DefaultParameter(k) : k \in Kinds}
    \cup {[kind |-> k, has_value |-> TRUE, value |-> v] :
            k \in Kinds, v \in Values}

\* The parameter_ members of a freshly constructed request, most derived
\* class (first declared kind) first.
DefaultParameters == [i \in 1..Len(Declared) |-> DefaultParameter(Declared[i])]

\* set_parameter(Parameter&& p): overload resolution walks the class
\* hierarchy to the RequestParameterList level whose Parameter is p's type;
\* that level does parameter_ = std::move(p).
set_parameter_first_wins(params, i, p) ==
  LET level == CHOOSE j \in i..Len(params) : params[j].kind = p.kind
  IN IF params[level].has_value THEN params ELSE [params EXCEPT ![level] = p]

RECURSIVE set_parameter(_, _, _)
set_parameter(params, i, p) ==
  IF params[i].kind = p.kind
  THEN [params EXCEPT ![i] = p]
  ELSE set_parameter(params, i + 1, p)

\* A set_multiple_parameters that sets the tail before the head.
RECURSIVE set_multiple_parameters_tail_first(_, _)
set_multiple_parameters_tail_first(params, args) ==
  IF args = <<>>
  THEN params
  ELSE set_parameter(set_multiple_parameters_tail_first(params, Tail(args)),
                     1, Head(args))

\* GenericRequest::set_multiple_parameters(h, tail...): set the head, then
\* recurse on the tail; the empty overload returns the request as it is.
RECURSIVE set_multiple_parameters(_, _)
set_multiple_parameters(params, args) ==
  IF args = <<>>
  THEN params
  ELSE set_multiple_parameters(set_parameter(params, 1, Head(args)), Tail(args))

\* os << sep << parameter_name() << "=" << value()
PrintParameter(os, sep, p) ==
  os \o <<sep, parameter_name(p.kind), "=", ToString(p.value)>>

\* A DumpParameters that hands the caller's sep on after printing.
RECURSIVE DumpParametersSameSep(_, _, _, _)
DumpParametersSameSep(params, i, os, sep) ==
  IF i = Len(params)
  THEN IF params[i].has_value THEN PrintParameter(os, sep, params[i]) ELSE os
  ELSE IF params[i].has_value
       THEN DumpParametersSameSep(params, i + 1,
                                  PrintParameter(os, sep, params[i]), sep)
       ELSE DumpParametersSameSep(params, i + 1, os, sep)

\* DumpParameters(os, sep) of the level holding params[i]; the last level is
\* the single-parameter specialisation.
RECURSIVE DumpParameters(_, _, _, _)
DumpParameters(params, i, os, sep) ==
  IF i = Len(params)
  THEN IF params[i].has_value THEN PrintParameter(os, sep, params[i]) ELSE os
  ELSE IF params[i].has_value
       THEN DumpParameters(params, i + 1,
                           PrintParameter(os, sep, params[i]), ", ")
       ELSE DumpParameters(params, i + 1, os, sep)

\* The separators a caller hands to DumpParameters.
Separators == {"", ", ", "; "}

\* Argument lists of set_multiple_parameters.
RECURSIVE SeqsUpTo(_, _)
SeqsUpTo(S, n) ==
  IF n = 0
  THEN {<<>>}
  ELSE LET shorter == SeqsUpTo(S, n - 1)
       IN shorter \cup {Append(s, x) : s \in shorter, x \in S}

ArgumentLists == SeqsUpTo(ParameterValues, MaxArgs)

\* ------------------------------------------------------------------------
\* Statuses, requests and responses of the RawClient interface
\* ------------------------------------------------------------------------

\* Status(): OK; TransientError() and PermanentError() of canonical_errors.h
\* as bucket_test.cc uses them.
Statuses == {"OK", "Transient", "Permanent"}

\* The two calls a Client is used for.
Threads == {"A", "B"}

\* The decorators and the mock a chain of RawClients is made of.
Layers == {"RetryClient", "LoggingClient", "MockClient"}

\* The operations of the RawClient interface that LoggingClient implements.
RawOps ==
  {"ListBuckets", "GetBucketMetadata", "InsertObjectMedia",
   "GetObjectMetadata", "ReadObjectRangeMedia", "ListObjects",
   "DeleteObject", "ListObjectAcl"}

\* The Client operations that return a value (or nothing) to the caller.
ValueOps ==
  {"ListBuckets", "GetBucketMetadata", "InsertObject", "GetObjectMetadata",
   "DeleteObject", "ListObjectAcl"}

\* The Client operations that hand raw_client_ to a reader or a stream.
ReaderOps == {"ListObjects", "Read"}

FacadeOps == ValueOps \cup ReaderOps

\* A Client whose GetObjectMetadata calls raw_client_->GetBucketMetadata.
RawOperationMixedUp(op) ==
  CASE op = "InsertObject" -> "InsertObjectMedia"
    [] op = "Read" -> "ReadObjectRangeMedia"
    [] op = "GetObjectMetadata" -> "GetBucketMetadata"
    [] OTHER -> op

\* The RawClient operation each Client operation ends up calling.
RawOperation(op) ==
  CASE op = "ListBuckets" -> "ListBuckets"
    [] op = "GetBucketMetadata" -> "GetBucketMetadata"
    [] op = "InsertObject" -> "InsertObjectMedia"
    [] op = "GetObjectMetadata" -> "GetObjectMetadata"
    [] op = "ListObjects" -> "ListObjects"
    [] op = "Read" -> "ReadObjectRangeMedia"
    [] op = "DeleteObject" -> "DeleteObject"
    [] op = "ListObjectAcl" -> "ListObjectAcl"

\* The request a Client operation builds: the request type's constructor with
\* the positional arguments, then set_multiple_parameters(modifiers...).
BuildRequest(op, modifiers) ==
  [type |-> RawOperation(op),
   bucket_name |-> "foo-bar-baz",
   parameter_ |-> set_multiple_parameters(DefaultParameters, modifiers)]

\* The modifier lists the modelled callers pass to a Client operation.
FacadeModifiers ==
  {<<>>, <<[kind |-> Declared[1], has_value |-> TRUE, value |-> 2]>>}

\* The payload values a response carries: a default-constructed one
\* (BucketMetadata{}) and the one the test expects.
Payloads == {"", "foo-bar-baz"}

\* The responses the mock can answer a RawClient operation with.
Responses(rawop) ==
  CASE rawop \in {"ListBuckets", "ListObjects", "ListObjectAcl"} ->
         {[type |-> rawop, items |-> v] : v \in Payloads}
    [] rawop = "DeleteObject" -> {[type |-> "EmptyResponse"]}
    [] OTHER -> {[type |-> rawop, name |-> v] : v \in Payloads}

\* A default-constructed response of an operation.
DefaultResponse(rawop) ==
  CASE rawop \in {"ListBuckets", "ListObjects", "ListObjectAcl"} ->
         [type |-> rawop, items |-> ""]
    [] rawop = "DeleteObject" -> [type |-> "EmptyResponse"]
    [] OTHER -> [type |-> rawop, name |-> ""]

NoRequest == [type |-> "", bucket_name |-> "", parameter_ |-> DefaultParameters]
NoCall == [op |-> "", request |-> NoRequest]
NoResult == <<"", [type |-> ""]>>
NoOutcome == [kind |-> "none"]

VARIABLES
  parameter_,   \* the request's parameter_ members, in declared order
  passed,       \* per kind: <<>> or <<p>>, the last parameter passed for it
  os,           \* the stream DumpParameters last wrote to
  dump_sep,     \* the sep of that DumpParameters call
  overwritten,  \* whether a slot holding a value was given another parameter
  before,       \* the parameter_ members when the call under study was made
  call_args,    \* the arguments of the call under study
  req_pc        \* "building", "dumped", or "set" / "applied" after a call under study

reqvars ==
  <<parameter_, passed, os, dump_sep, overwritten, before, call_args, req_pc>>

VARIABLES
  raw_client_,       \* Client::raw_client_: the chain of RawClients, outermost first
  constructed_with,  \* the constructor the Client was built with
  budget,            \* the N of the LimitedErrorCountRetryPolicy(N) it was given
  retry_policy,      \* the prototype retry policy and each call's working copy
  pc,                \* per call: where it is in the chain
  call,              \* per call: the Client operation and the request it built
  invocations,       \* per call and layer: how often the layer was invoked
  received,          \* per call and layer: the operation and request of its last invocation
  seen,              \* per call: the statuses the mock has returned to it
  mock_ret,          \* per call: the (status, response) the mock returned last
  result,            \* per call: the (status, response) last returned up the chain
  retry_state,       \* per call: the state of the retry loop
  waits,             \* per call: the backoff waits made
  outcome,           \* per call: what the Client operation gave its caller
  log                \* the lines written to the log sink

clientvars == <<raw_client_, constructed_with, budget>>
callvars ==
  <<retry_policy, pc, call, invocations, received, seen, mock_ret, result,
    retry_state, waits, outcome, log>>

vars == <<reqvars, clientvars, callvars>>

RequestInit ==
  /\ parameter_ = DefaultParameters
  /\ passed = [k \in Kinds |-> <<>>]
  /\ os = <<>>
  /\ dump_sep = ""
  /\ overwritten = FALSE
  /\ before = DefaultParameters
  /\ call_args = <<>>
  /\ req_pc = "building"

\* The record of the last parameter passed per kind, after args were passed
\* from left to right.
RECURSIVE Record(_, _)
Record(hist, args) ==
  IF args = <<>>
  THEN hist
  ELSE Record([hist EXCEPT ![Head(args).kind] = <<Head(args)>>], Tail(args))

\* Whether passing args from left to right replaces a parameter that has a
\* value by a different one.
RECURSIVE Overwrites(_, _)
Overwrites(params, args) ==
  IF args = <<>>
  THEN FALSE
  ELSE \/ \E i \in 1..Len(params) :
            /\ params[i].kind = Head(args).kind
            /\ params[i].has_value
            /\ params[i] # Head(args)
       \/ Overwrites(set_parameter(params, 1, Head(args)), Tail(args))

\* request.set_parameter(p)
SetParameter ==
  /\ req_pc = "building"
  /\ \E p \in ParameterValues :
       /\ parameter_' = set_parameter(parameter_, 1, p)
       /\ passed' = Record(passed, <<p>>)
       /\ overwritten' = (overwritten \/ Overwrites(parameter_, <<p>>))
  /\ UNCHANGED <<os, dump_sep, before, call_args, req_pc, clientvars, callvars>>

\* request.set_multiple_parameters(args...)
SetMultipleParameters ==
  /\ req_pc = "building"
  /\ \E args \in ArgumentLists :
       /\ parameter_' = set_multiple_parameters(parameter_, args)
       /\ passed' = Record(passed, args)
       /\ overwritten' = (overwritten \/ Overwrites(parameter_, args))
  /\ UNCHANGED <<os, dump_sep, before, call_args, req_pc, clientvars, callvars>>

\* request.DumpParameters(os, sep) on a fresh stream
Dump ==
  /\ \E sep \in Separators :
       /\ os' = DumpParameters(parameter_, 1, <<>>, sep)
       /\ dump_sep' = sep
  /\ req_pc' = "dumped"
  /\ UNCHANGED <<parameter_, passed, overwritten, before, call_args, clientvars,
                 callvars>>

\* The request is discarded and a new one constructed.
NewRequest ==
  /\ req_pc = "dumped"
  /\ parameter_' = DefaultParameters
  /\ passed' = [k \in Kinds |-> <<>>]
  /\ os' = <<>>
  /\ dump_sep' = ""
  /\ overwritten' = FALSE
  /\ req_pc' = "building"
  /\ UNCHANGED <<before, call_args, clientvars, callvars>>

\* The states a request can be in: per declared kind, any parameter of it.
RequestStates ==
  {f \in [1..Len(Declared) -> ParameterValues] :
     \A i \in 1..Len(Declared) : f[i].kind = Declared[i]}

\* A request in any state, on which one call is then studied.
AnyRequestInit ==
  /\ parameter_ \in RequestStates
  /\ passed = [k \in Kinds |->
                 LET i == CHOOSE j \in 1..Len(Declared) : Declared[j] = k
                 IN IF parameter_[i].has_value THEN <<parameter_[i]>> ELSE <<>>]
  /\ os = <<>>
  /\ dump_sep = ""
  /\ overwritten = FALSE
  /\ before = parameter_
  /\ call_args = <<>>
  /\ req_pc = "building"

\* request.set_parameter(p), the request before the call and p kept
ApplySetParameter ==
  /\ req_pc = "building"
  /\ \E p \in ParameterValues :
       /\ parameter_' = set_parameter(parameter_, 1, p)
       /\ passed' = Record(passed, <<p>>)
       /\ overwritten' = (overwritten \/ Overwrites(parameter_, <<p>>))
       /\ call_args' = <<p>>
  /\ before' = parameter_
  /\ req_pc' = "set"
  /\ UNCHANGED <<os, dump_sep, clientvars, callvars>>

\* request.set_multiple_parameters(args...), the request before the call and
\* args kept
ApplySetMultipleParameters ==
  /\ req_pc = "building"
  /\ \E args \in ArgumentLists :
       /\ parameter_' = set_multiple_parameters(parameter_, args)
       /\ passed' = Record(passed, args)
       /\ overwritten' = (overwritten \/ Overwrites(parameter_, args))
       /\ call_args' = args
  /\ before' = parameter_
  /\ req_pc' = "applied"
  /\ UNCHANGED <<os, dump_sep, clientvars, callvars>>

\* ------------------------------------------------------------------------
\* The Client and its chain of RawClients (client.h)
\* ------------------------------------------------------------------------

\* LimitedErrorCountRetryPolicy(n), as bucket_test.cc constructs it.
LimitedErrorCountRetryPolicy(n) == [maximum_failures |-> n, failure_count |-> 0]

\* A Client(client, policies...) that forgets the RetryClient.
ClientWithPoliciesUnwrapped(client) == client

\* Client(client, policies...): raw_client_ is a new RetryClient around client.
ClientWithPolicies(client) == <<"RetryClient">> \o client

\* Client(client, NoRetry): raw_client_ is client itself.
ClientNoRetry(client) == client

\* The RawClients handed to a Client: the mock, or a LoggingClient around it.
MockedClients == {<<"MockClient">>, <<"LoggingClient", "MockClient">>}

ClientInit(clients, ctors, budgets) ==
  /\ \E client \in clients, ctor \in ctors :
       /\ constructed_with = ctor
       /\ raw_client_ = IF ctor = "Policies"
                        THEN ClientWithPolicies(client)
                        ELSE ClientNoRetry(client)
  /\ budget \in budgets
  /\ retry_policy =
       [s \in {"prototype"} \cup Threads |-> LimitedErrorCountRetryPolicy(budget)]
  /\ pc = [c \in Threads |-> "idle"]
  /\ call = [c \in Threads |-> NoCall]
  /\ invocations = [c \in Threads |-> [l \in Layers |-> 0]]
  /\ received = [c \in Threads |-> [l \in Layers |-> NoCall]]
  /\ seen = [c \in Threads |-> <<>>]
  /\ mock_ret = [c \in Threads |-> NoResult]
  /\ result = [c \in Threads |-> NoResult]
  /\ retry_state = [c \in Threads |-> "none"]
  /\ waits = [c \in Threads |-> 0]
  /\ outcome = [c \in Threads |-> NoOutcome]
  /\ log = <<>>

\* The position of a layer in the chain, the layer below it, and where
\* control is when the layer returns to its caller.
Position(layer) == CHOOSE i \in 1..Len(raw_client_) : raw_client_[i] = layer

Below(layer) == raw_client_[Position(layer) + 1]

ReturnTo(layer) ==
  IF Position(layer) = 1
  THEN "ClientReturn"
  ELSE IF raw_client_[Position(layer) - 1] = "RetryClient"
       THEN "RetryInspect"
       ELSE "LoggingReturn"

\* A call of operation op with request on a layer of the chain.
Invoke(c, layer, op, request) ==
  /\ pc' = [pc EXCEPT ![c] = layer]
  /\ invocations' = [invocations EXCEPT ![c][layer] = @ + 1]
  /\ received' = [received EXCEPT ![c][layer] = [op |-> op, request |-> request]]

\* A Client operation up to its call of raw_client_: build the request, set
\* the modifiers, call the operation on raw_client_. (A reader or stream
\* makes that call when it is first consumed.)
FacadeCall(c, ops, modifier_lists) ==
  /\ pc[c] = "idle"
  /\ \E op \in ops, modifiers \in modifier_lists :
       LET request == BuildRequest(op, modifiers)
       IN /\ call' = [call EXCEPT ![c] = [op |-> op, request |-> request]]
          /\ Invoke(c, raw_client_[1], RawOperation(op), request)
  /\ UNCHANGED <<reqvars, clientvars, retry_policy, seen, mock_ret, result,
                 retry_state, waits, outcome, log>>

\* The value a Client operation returns from the pair raw_client_ gave it,
\* were it to return a default-constructed value.
UnwrapDefault(op, pair) ==
  CASE op \in {"ListBuckets", "ListObjectAcl"} -> ""
    [] op = "DeleteObject" -> [type |-> "void"]
    [] OTHER -> DefaultResponse(RawOperation(op))

\* ListBuckets, ListObjectAcl: .second.items; GetObjectMetadata: .second;
\* DeleteObject: nothing.
Unwrap(op, pair) ==
  CASE op \in {"ListBuckets", "ListObjectAcl"} -> pair[2].items
    [] op = "DeleteObject" -> [type |-> "void"]
    [] OTHER -> pair[2]

\* GetBucketMetadataImpl, InsertObjectMediaImpl: the response of the pair.
ImplResult(pair) == pair[2]

\* What a reader or stream holds after its call of raw_client_.
ReaderResult(pair) == pair

\* raw_client_ returned a pair to the Client operation, which returns.
ClientReturn(c) ==
  /\ pc[c] = "ClientReturn"
  /\ outcome' =
       [outcome EXCEPT ![c] =
          IF call[c].op \in ReaderOps
          THEN [kind |-> "reader", value |-> ReaderResult(result[c])]
          ELSE IF call[c].op \in {"GetBucketMetadata", "InsertObject"}
               THEN [kind |-> "returned", value |-> ImplResult(result[c])]
               ELSE [kind |-> "returned", value |-> Unwrap(call[c].op, result[c])]]
  /\ pc' = [pc EXCEPT ![c] = "done"]
  /\ UNCHANGED <<reqvars, clientvars, retry_policy, call, invocations, received,
                 seen, mock_ret, result, retry_state, waits, log>>

\* ------------------------------------------------------------------------
\* The mock RawClient (bucket_test.cc)
\* ------------------------------------------------------------------------

\* The mock answers an invocation with any status and any response.
MockReturn(c) ==
  /\ pc[c] = "MockClient"
  /\ \E status \in Statuses, response \in Responses(received[c]["MockClient"].op) :
       /\ mock_ret' = [mock_ret EXCEPT ![c] = <<status, response>>]
       /\ result' = [result EXCEPT ![c] = <<status, response>>]
       /\ seen' = [seen EXCEPT ![c] = Append(@, status)]
  /\ pc' = [pc EXCEPT ![c] = ReturnTo("MockClient")]
  /\ UNCHANGED <<reqvars, clientvars, retry_policy, call, invocations, received,
                 retry_state, waits, outcome, log>>

\* ------------------------------------------------------------------------
\* LoggingClient (logging_client.cc)
\* ------------------------------------------------------------------------

\* A LoggingClient whose GetObjectMetadata calls RawClient::GetBucketMetadata.
LoggingClientMethodMixedUp(op) ==
  IF op = "GetObjectMetadata"
  THEN [function |-> "GetBucketMetadata", context |-> "GetObjectMetadata"]
  ELSE [function |-> op, context |-> op]

\* Each LoggingClient method: the RawClient member function it hands to
\* MakeCall, and __func__.
LoggingClientMethod(op) ==
  CASE op = "ListBuckets" ->
         [function |-> "ListBuckets", context |-> "ListBuckets"]
    [] op = "GetBucketMetadata" ->
         [function |-> "GetBucketMetadata", context |-> "GetBucketMetadata"]
    [] op = "InsertObjectMedia" ->
         [function |-> "InsertObjectMedia", context |-> "InsertObjectMedia"]
    [] op = "GetObjectMetadata" ->
         [function |-> "GetObjectMetadata", context |-> "GetObjectMetadata"]
    [] op = "ReadObjectRangeMedia" ->
         [function |-> "ReadObjectRangeMedia", context |-> "ReadObjectRangeMedia"]
    [] op = "ListObjects" ->
         [function |-> "ListObjects", context |-> "ListObjects"]
    [] op = "DeleteObject" ->
         [function |-> "DeleteObject", context |-> "DeleteObject"]
    [] op = "ListObjectAcl" ->
         [function |-> "ListObjectAcl", context |-> "ListObjectAcl"]

\* GCP_LOG(INFO) << context << " << " << request
RequestLine(context, request) ==
  [context |-> context, direction |-> "<<", request |-> request]

\* A second log line that carries the status and a default-constructed payload.
ResponseLineWithoutPayload(context, response) ==
  [context |-> context, direction |-> ">>", status |-> response[1],
   payload |-> DefaultResponse(response[2].type)]

\* GCP_LOG(INFO) << context << " >> status={" << response.first
\*               << "}, payload={" << response.second << "}"
ResponseLine(context, response) ==
  [context |-> context, direction |-> ">>", status |-> response[1],
   payload |-> response[2]]

\* A MakeCall that returns the status with a default-constructed payload.
MakeCallReturnLosesPayload(lg, context, response) ==
  [log |-> Append(lg, ResponseLine(context, response)),
   result |-> <<response[1], DefaultResponse(response[2].type)>>]

\* MakeCall after (client.*function)(request) has returned response: log the
\* second line, return response.
MakeCallReturn(lg, context, response) ==
  [log |-> Append(lg, ResponseLine(context, response)), result |-> response]

\* A LoggingClient method up to the inner call: MakeCall logs the request and
\* calls function on client_.
LoggingCall(c) ==
  /\ pc[c] = "LoggingClient"
  /\ LET r == received[c]["LoggingClient"]
         m == LoggingClientMethod(r.op)
     IN /\ log' = Append(log, RequestLine(m.context, r.request))
        /\ Invoke(c, Below("LoggingClient"), m.function, r.request)
  /\ UNCHANGED <<reqvars, clientvars, retry_policy, call, seen, mock_ret, result,
                 retry_state, waits, outcome>>

\* The inner call returned: MakeCall logs the result and returns it.
LoggingReturn(c) ==
  /\ pc[c] = "LoggingReturn"
  /\ LET r == received[c]["LoggingClient"]
         m == LoggingClientMethod(r.op)
         ret == MakeCallReturn(log, m.context, result[c])
     IN /\ log' = ret.log
        /\ result' = [result EXCEPT ![c] = ret.result]
  /\ pc' = [pc EXCEPT ![c] = ReturnTo("LoggingClient")]
  /\ UNCHANGED <<reqvars, clientvars, retry_policy, call, invocations, received,
                 seen, mock_ret, retry_state, waits, outcome>>

\* ------------------------------------------------------------------------
\* RetryClient: the retry loop
\* ------------------------------------------------------------------------

\* Every call working on the prototype policy itself.
PolicyOfPrototype(c) == "prototype"

\* The retry policy object a call works on: its own clone.
PolicyOf(c) == c

\* A retry policy that allows one retry more than its maximum.
RetryAllowedOneMore(policy) == policy.failure_count <= policy.maximum_failures

\* Whether the retry policy allows another attempt after a transient failure.
RetryAllowed(policy) == policy.failure_count < policy.maximum_failures

\* Whether a status is a permanent failure, which is never retried.
IsPermanentFailure(status) == status = "Permanent"

\* The message of the fatal error: the reason class, the operation, the status.
ErrorMessage(status, op) ==
  <<IF IsPermanentFailure(status) THEN "Permanent error" ELSE "Retry policy exhausted",
    " in ", op, ": ", status>>

\* A RetryClient operation is called: clone the policies, make the first
\* attempt on the inner client.
RetryCall(c) ==
  /\ pc[c] = "RetryClient"
  /\ retry_policy' = [retry_policy EXCEPT ![PolicyOf(c)] = retry_policy["prototype"]]
  /\ retry_state' = [retry_state EXCEPT ![c] = "Attempting"]
  /\ LET r == received[c]["RetryClient"]
     IN Invoke(c, Below("RetryClient"), r.op, r.request)
  /\ UNCHANGED <<reqvars, clientvars, call, seen, mock_ret, result, waits,
                 outcome, log>>

\* The attempt returned OK: return (OK, response).
RetrySuccess(c) ==
  /\ pc[c] = "RetryInspect"
  /\ result[c][1] = "OK"
  /\ retry_state' = [retry_state EXCEPT ![c] = "Success"]
  /\ pc' = [pc EXCEPT ![c] = ReturnTo("RetryClient")]
  /\ UNCHANGED <<reqvars, clientvars, retry_policy, call, invocations, received,
                 seen, mock_ret, result, waits, outcome, log>>

\* The attempt returned a permanent failure: raise, without consulting the
\* retry policy. The error propagates through the Client operation.
RetryPermanentFailure(c) ==
  /\ pc[c] = "RetryInspect"
  /\ result[c][1] # "OK"
  /\ IsPermanentFailure(result[c][1])
  /\ retry_state' = [retry_state EXCEPT ![c] = "PermanentFailure"]
  /\ outcome' = [outcome EXCEPT ![c] =
                   [kind |-> "raised",
                    message |-> ErrorMessage(result[c][1], received[c]["RetryClient"].op)]]
  /\ pc' = [pc EXCEPT ![c] = "done"]
  /\ UNCHANGED <<reqvars, clientvars, retry_policy, call, invocations, received,
                 seen, mock_ret, result, waits, log>>

\* The attempt returned a transient failure and the policy allows a retry:
\* count the failure and go to the backoff wait.
RetryTransient(c) ==
  /\ pc[c] = "RetryInspect"
  /\ result[c][1] # "OK"
  /\ ~ IsPermanentFailure(result[c][1])
  /\ RetryAllowed(retry_policy[PolicyOf(c)])
  /\ retry_policy' = [retry_policy EXCEPT ![PolicyOf(c)].failure_count = @ + 1]
  /\ retry_state' = [retry_state EXCEPT ![c] = "Retrying"]
  /\ pc' = [pc EXCEPT ![c] = "Backoff"]
  /\ UNCHANGED <<reqvars, clientvars, call, invocations, received, seen,
                 mock_ret, result, waits, outcome, log>>

\* The attempt returned a transient failure and the budget is used up: raise.
RetryExhausted(c) ==
  /\ pc[c] = "RetryInspect"
  /\ result[c][1] # "OK"
  /\ ~ IsPermanentFailure(result[c][1])
  /\ ~ RetryAllowed(retry_policy[PolicyOf(c)])
  /\ retry_state' = [retry_state EXCEPT ![c] = "Exhausted"]
  /\ outcome' = [outcome EXCEPT ![c] =
                   [kind |-> "raised",
                    message |-> ErrorMessage(result[c][1], received[c]["RetryClient"].op)]]
  /\ pc' = [pc EXCEPT ![c] = "done"]
  /\ UNCHANGED <<reqvars, clientvars, retry_policy, call, invocations, received,
                 seen, mock_ret, result, waits, log>>

\* A retry loop that makes the next attempt without the backoff wait.
RetryBackoffWithoutWait(c) ==
  /\ pc[c] = "Backoff"
  /\ retry_state' = [retry_state EXCEPT ![c] = "Attempting"]
  /\ LET r == received[c]["RetryClient"]
     IN Invoke(c, Below("RetryClient"), r.op, r.request)
  /\ UNCHANGED <<reqvars, clientvars, retry_policy, call, seen, mock_ret, result,
                 waits, outcome, log>>

\* The backoff wait ends: make the next attempt on the inner client.
RetryBackoff(c) ==
  /\ pc[c] = "Backoff"
  /\ waits' = [waits EXCEPT ![c] = @ + 1]
  /\ retry_state' = [retry_state EXCEPT ![c] = "Attempting"]
  /\ LET r == received[c]["RetryClient"]
     IN Invoke(c, Below("RetryClient"), r.op, r.request)
  /\ UNCHANGED <<reqvars, clientvars, retry_policy, call, seen, mock_ret, result,
                 outcome, log>>

\* ------------------------------------------------------------------------
\* Specifications
\* ------------------------------------------------------------------------

Constructors == {"Policies", "NoRetry"}

Init == RequestInit /\ ClientInit(MockedClients, Constructors, 0..MaxBudget)

\* One call through a Client whose chain may hold a LoggingClient.
Next ==
  \E c \in {"A"} :
    \/ FacadeCall(c, FacadeOps, FacadeModifiers)
    \/ RetryCall(c)
    \/ LoggingCall(c)
    \/ MockReturn(c)
    \/ LoggingReturn(c)
    \/ RetrySuccess(c)
    \/ RetryPermanentFailure(c)
    \/ RetryTransient(c)
    \/ RetryExhausted(c)
    \/ RetryBackoff(c)
    \/ ClientReturn(c)

Spec == Init /\ [][Next]_vars

\* The steps of a call once the Client operation was called: every inner
\* call returns, every backoff wait ends, and the code between them runs.
Progress ==
  \E c \in {"A"} :
    \/ RetryCall(c)
    \/ LoggingCall(c)
    \/ MockReturn(c)
    \/ LoggingReturn(c)
    \/ RetrySuccess(c)
    \/ RetryPermanentFailure(c)
    \/ RetryTransient(c)
    \/ RetryExhausted(c)
    \/ RetryBackoff(c)
    \/ ClientReturn(c)

\* Spec, with a call that was made running on: a blocking call whose inner
\* calls and waits return.
SpecLive == Init /\ [][Next]_vars /\ WF_vars(Progress)

InitCalls == RequestInit /\ ClientInit({<<"MockClient">>}, Constructors, 0..MaxBudget)

\* Two calls, in any interleaving, through one Client over the mock.
NextCalls ==
  \E c \in Threads :
    \/ FacadeCall(c, {"GetBucketMetadata", "ListBuckets"}, {<<>>})
    \/ RetryCall(c)
    \/ MockReturn(c)
    \/ RetrySuccess(c)
    \/ RetryPermanentFailure(c)
    \/ RetryTransient(c)
    \/ RetryExhausted(c)
    \/ RetryBackoff(c)
    \/ ClientReturn(c)

SpecCalls == InitCalls /\ [][NextCalls]_vars

\* A request on its own: built, dumped, discarded.
NextRequest ==
  \/ SetParameter
  \/ SetMultipleParameters
  \/ Dump
  \/ NewRequest

InitRequest == RequestInit /\ ClientInit({<<"MockClient">>}, {"NoRetry"}, {0})

SpecRequest == InitRequest /\ [][NextRequest]_vars

InitApply ==
  AnyRequestInit /\ ClientInit({<<"MockClient">>}, {"NoRetry"}, {0})

\* One call of set_parameter or set_multiple_parameters on a request in any
\* state.
NextApply ==
  \/ ApplySetParameter
  \/ ApplySetMultipleParameters

SpecApply == InitApply /\ [][NextApply]_vars


\* ------------------------------------------------------------------------
\* Properties of the parameter list
\* ------------------------------------------------------------------------

\* The positions of the declared list whose parameter has a value.
SetPositions == {i \in 1..Len(parameter_) : parameter_[i].has_value}

\* The j-th smallest element of a set of positions.
Nth(S, j) == CHOOSE i \in S : Cardinality({x \in S : x < i}) = j - 1

\* C7: after DumpParameters(os, sep) the stream holds exactly one
\* name=value group per parameter that has a value, in declaration order,
\* sep before the first group and ", " before each later one, and nothing
\* for a parameter without a value.
DumpIsSetParametersInDeclaredOrder ==
  req_pc = "dumped" =>
    /\ Len(os) = 4 * Cardinality(SetPositions)
    /\ \A j \in 1..Cardinality(SetPositions) :
         LET p == parameter_[Nth(SetPositions, j)]
         IN /\ os[4 * j - 3] = (IF j = 1 THEN dump_sep ELSE ", ")
            /\ os[4 * j - 2] = parameter_name(p.kind)
            /\ os[4 * j - 1] = "="
            /\ os[4 * j] = ToString(p.value)

\* C7 witness: a dump, with a separator other than ", ", of a request whose
\* first and third kinds have a value and whose second has none, after a
\* value was overwritten: two groups were printed.
DumpSkippingAnAbsentParameter ==
  /\ req_pc = "dumped"
  /\ dump_sep = "; "
  /\ overwritten
  /\ parameter_[1].has_value
  /\ ~ parameter_[2].has_value
  /\ parameter_[3].has_value
  /\ Len(os) = 8

\* C10: every slot holds a parameter of its own kind; it is the last one
\* passed for that kind, or the default (absent) one if none was passed.
SlotHoldsLastPassed ==
  \A i \in 1..Len(parameter_) :
    /\ parameter_[i].kind = Declared[i]
    /\ passed[Declared[i]] = <<>> => parameter_[i] = DefaultParameter(Declared[i])
    /\ passed[Declared[i]] # <<>> => parameter_[i] = passed[Declared[i]][1]

\* C10 witness: a slot that held a value was given another parameter, and
\* one kind was never set while the other two hold a value.
OverwrittenSlot ==
  /\ req_pc = "building"
  /\ overwritten
  /\ passed[Declared[1]] = <<>>
  /\ parameter_[2].has_value
  /\ parameter_[3].has_value

\* The request after set_parameter was called with args[1], ..., args[n],
\* one call after the other.
RECURSIVE SetOneAtATime(_, _, _)
SetOneAtATime(params, args, n) ==
  IF n = 0
  THEN params
  ELSE set_parameter(SetOneAtATime(params, args, n - 1), 1, args[n])

\* The orders args can be passed in.
ArgumentOrders(args) ==
  {[i \in 1..Len(args) |-> args[f[i]]] :
     f \in {g \in [1..Len(args) -> 1..Len(args)] :
              \A i, j \in 1..Len(args) : g[i] = g[j] => i = j}}

DistinctKinds(args) ==
  \A i, j \in 1..Len(args) : args[i].kind = args[j].kind => i = j

\* C11: set_multiple_parameters(args...) leaves the request as set_parameter
\* called on each argument from left to right does: a slot whose kind no
\* argument has is as before, any other holds the last argument of its kind;
\* with no arguments the request is unchanged; arguments of pairwise
\* distinct kinds give the same request in every order; and one
\* set_parameter(p) changes the slot of p's kind to p and no other slot.
SetMultipleIsSetParameterLeftToRight ==
  /\ req_pc = "applied" =>
       /\ parameter_ = SetOneAtATime(before, call_args, Len(call_args))
       /\ \A i \in 1..Len(parameter_) :
            LET mine == {j \in 1..Len(call_args) : call_args[j].kind = Declared[i]}
            IN parameter_[i] =
                 (IF mine = {}
                  THEN before[i]
                  ELSE call_args[CHOOSE j \in mine : \A k \in mine : k <= j])
       /\ call_args = <<>> => parameter_ = before
       /\ DistinctKinds(call_args) =>
            \A q \in ArgumentOrders(call_args) :
              set_multiple_parameters(before, q) = parameter_
  /\ req_pc = "set" =>
       \A i \in 1..Len(parameter_) :
         parameter_[i] =
           (IF Declared[i] = call_args[1].kind THEN call_args[1] ELSE before[i])

\* C11 witness: set_multiple_parameters was called with two arguments of
\* different kinds, the later declared kind first, on a request that held
\* another value for one of them and a value of a third kind.
SetMultipleAppliedOutOfOrder ==
  /\ req_pc = "applied"
  /\ Len(call_args) = 2
  /\ call_args[1].kind = Declared[3]
  /\ call_args[2].kind = Declared[1]
  /\ before[1].has_value
  /\ before[1] # call_args[2]
  /\ before[2].has_value
  /\ parameter_[2] = before[2]
  /\ parameter_[1] = call_args[2]

\* ------------------------------------------------------------------------
\* Properties of the retry loop, the Client and the LoggingClient
\* ------------------------------------------------------------------------

AllTransient(s) == \A i \in 1..Len(s) : s[i] = "Transient"

Last(s) == s[Len(s)]

Contains(message, text) == \E i \in 1..Len(message) : message[i] = text

InChain(layer) == \E i \in 1..Len(raw_client_) : raw_client_[i] = layer

\* Where a call is once its last attempt has returned and no other is made.
AfterLastAttempt == {"LoggingReturn", "RetryInspect", "ClientReturn", "done"}

\* C1: in a call on a Client built with retry budget N whose attempts were
\* all answered Transient, the mock is invoked at most N+1 times, and the
\* call ends only after exactly N+1 invocations, Exhausted, with the error
\* raised.
AllTransientExhaustsAfterBudgetPlusOne ==
  \A c \in Threads :
    (constructed_with = "Policies" /\ AllTransient(seen[c])) =>
      /\ invocations[c]["MockClient"] <= budget + 1
      /\ Len(seen[c]) = budget + 1 => pc[c] \in AfterLastAttempt
      /\ pc[c] = "done" =>
           /\ invocations[c]["MockClient"] = budget + 1
           /\ Len(seen[c]) = budget + 1
           /\ retry_state[c] = "Exhausted"
           /\ outcome[c].kind = "raised"

\* C1 witness: a call with the largest budget ended Exhausted.
ExhaustedCall ==
  /\ budget = MaxBudget
  /\ pc["A"] = "done"
  /\ retry_state["A"] = "Exhausted"
  /\ Len(seen["A"]) = MaxBudget + 1

\* The value a Client operation owes its caller for a response.
ResponseValue(op, response) ==
  IF op \in {"ListBuckets", "ListObjectAcl"}
  THEN response.items
  ELSE IF op = "DeleteObject" THEN [type |-> "void"] ELSE response

\* C2: in a call on a Client built with retry budget N whose attempts were
\* answered k Transient and then OK, k is at most N, no attempt follows the
\* OK, and the call ends after k+1 invocations in Success, returning the
\* value of the response that came with the OK.
TransientsThenOkReturnsThatResponse ==
  \A c \in Threads :
    (/\ constructed_with = "Policies"
     /\ call[c].op \in ValueOps
     /\ seen[c] # <<>>
     /\ Last(seen[c]) = "OK"
     /\ AllTransient(SubSeq(seen[c], 1, Len(seen[c]) - 1))) =>
      /\ Len(seen[c]) <= budget + 1
      /\ invocations[c]["MockClient"] = Len(seen[c])
      /\ pc[c] \in AfterLastAttempt
      /\ pc[c] = "done" =>
           /\ retry_state[c] = "Success"
           /\ outcome[c].kind = "returned"
           /\ outcome[c].value = ResponseValue(call[c].op, mock_ret[c][2])

\* C2 witness: as in BucketTest.GetBucketMetadata, budget 2 and one Transient
\* before the OK; the ListBuckets call returned the items that came with it.
ReturnedAfterOneTransient ==
  /\ budget = 2
  /\ constructed_with = "Policies"
  /\ pc["A"] = "done"
  /\ call["A"].op = "ListBuckets"
  /\ seen["A"] = <<"Transient", "OK">>
  /\ outcome["A"].kind = "returned"
  /\ outcome["A"].value = "foo-bar-baz"

\* C3: in a call on a Client built with a retry policy, a Permanent status
\* is the last one the mock returns: the k-th attempt that returns it is the
\* last invocation, no wait or attempt follows, and the call ends in
\* PermanentFailure with the error raised.
PermanentFailureStopsTheCall ==
  \A c \in Threads :
    constructed_with = "Policies" =>
      \A i \in 1..Len(seen[c]) :
        seen[c][i] = "Permanent" =>
          /\ i = Len(seen[c])
          /\ invocations[c]["MockClient"] = i
          /\ pc[c] \in AfterLastAttempt
          /\ pc[c] = "done" =>
               /\ retry_state[c] = "PermanentFailure"
               /\ outcome[c].kind = "raised"

\* C3 witness: a Permanent status on the first attempt, budget left.
PermanentOnFirstAttempt ==
  /\ budget = MaxBudget
  /\ constructed_with = "Policies"
  /\ pc["A"] = "done"
  /\ seen["A"] = <<"Permanent">>
  /\ retry_policy["A"].failure_count = 0
  /\ outcome["A"].kind = "raised"

\* C4: a Client operation whose call of raw_client_ came back with a status
\* other than OK raises, and never returns a value to its caller.
FailedCallNeverReturnsNormally ==
  \A c \in Threads :
    (pc[c] = "done" /\ call[c].op \in ValueOps /\ result[c][1] # "OK") =>
      outcome[c].kind = "raised"

\* The name an error message gives for a Client operation.
OperationName(op) ==
  IF op = "InsertObject"
  THEN "InsertObjectMedia"
  ELSE IF op = "Read" THEN "ReadObjectRangeMedia" ELSE op

\* C5: the message of a raised error holds "Retry policy exhausted" exactly
\* when the last status was Transient with the budget used up, holds
\* "Permanent error" exactly when the last status was Permanent, and holds
\* the name of the operation called.
ErrorNamesOperationAndReason ==
  \A c \in Threads :
    outcome[c].kind = "raised" =>
      /\ Contains(outcome[c].message, "Retry policy exhausted")
           <=> (Last(seen[c]) = "Transient" /\ Len(seen[c]) = budget + 1)
      /\ Contains(outcome[c].message, "Permanent error")
           <=> Last(seen[c]) = "Permanent"
      /\ Contains(outcome[c].message, OperationName(call[c].op))

\* C5 witness: GetObjectMetadata failed permanently after a retry.
PermanentErrorRaisedAfterRetry ==
  /\ outcome["A"].kind = "raised"
  /\ call["A"].op = "GetObjectMetadata"
  /\ seen["A"] = <<"Transient", "Permanent">>
  /\ Contains(outcome["A"].message, "Permanent error")

\* The terminal state a call owes to the statuses its own attempts got.
TerminalOf(statuses) ==
  CASE Last(statuses) = "OK" -> "Success"
    [] Last(statuses) = "Permanent" -> "PermanentFailure"
    [] Last(statuses) = "Transient" -> "Exhausted"

\* C6: with two calls on one Client in any interleaving, the prototype
\* policy stays as configured, and each call's attempts and end follow from
\* the statuses of its own attempts and the budget N alone: it waits for a
\* retry only after at most N Transient statuses of its own, it ends after a
\* Transient only when that was its own (N+1)-th, and its end is the one its
\* own last status calls for.
CallsDoNotShareRetryState ==
  /\ retry_policy["prototype"] = LimitedErrorCountRetryPolicy(budget)
  /\ \A c \in Threads :
       constructed_with = "Policies" =>
         /\ Len(seen[c]) <= budget + 1
         /\ pc[c] = "Backoff" => AllTransient(seen[c]) /\ Len(seen[c]) <= budget
         /\ pc[c] = "done" =>
              /\ retry_state[c] = TerminalOf(seen[c])
              /\ outcome[c].kind = (IF Last(seen[c]) = "OK" THEN "returned" ELSE "raised")
              /\ AllTransient(SubSeq(seen[c], 1, Len(seen[c]) - 1))
              /\ Last(seen[c]) = "Transient" => Len(seen[c]) = budget + 1

\* C6 witness: one call ran to exhaustion and the other used the whole
\* budget and succeeded on its last attempt.
ExhaustedCallBesideFullBudgetCall ==
  /\ budget = MaxBudget
  /\ pc["A"] = "done"
  /\ retry_state["A"] = "Exhausted"
  /\ pc["B"] = "done"
  /\ retry_state["B"] = "Success"
  /\ Len(seen["B"]) = MaxBudget + 1

\* C8: a LoggingClient in the chain has invoked the client below it once
\* per invocation of its own (one less while it has yet to make the call),
\* on the operation and with the request it was itself invoked with.
LoggingInvokesInnerOncePerInvocation ==
  \A c \in Threads :
    InChain("LoggingClient") =>
      /\ invocations[c]["MockClient"] =
           (IF pc[c] = "LoggingClient"
            THEN invocations[c]["LoggingClient"] - 1
            ELSE invocations[c]["LoggingClient"])
      /\ (invocations[c]["MockClient"] > 0 /\ pc[c] # "LoggingClient") =>
           received[c]["MockClient"] = received[c]["LoggingClient"]

\* C8 witness: the LoggingClient was invoked a second time on
\* GetObjectMetadata after its inner call had returned Transient, and has
\* made the inner call again.
LoggingInvokedAgainAfterTransient ==
  /\ InChain("LoggingClient")
  /\ pc["A"] = "MockClient"
  /\ seen["A"] = <<"Transient">>
  /\ received["A"]["LoggingClient"].op = "GetObjectMetadata"
  /\ invocations["A"]["LoggingClient"] = 2

\* C9: what a LoggingClient in the chain has returned to its caller is the
\* (status, response) pair its inner call returned.
LoggingReturnsInnerResult ==
  \A c \in Threads :
    (/\ InChain("LoggingClient")
     /\ pc[c] \in {"RetryInspect", "Backoff", "ClientReturn", "done"}) =>
      result[c] = mock_ret[c]

\* C9 witness: a LoggingClient under a Client without retries has returned
\* a Permanent status with a payload.
LoggingReturnedFailureWithPayload ==
  /\ raw_client_ = <<"LoggingClient", "MockClient">>
  /\ pc["A"] = "ClientReturn"
  /\ Len(log) = 2
  /\ result["A"][1] = "Permanent"
  /\ result["A"][2] = [type |-> "GetBucketMetadata", name |-> "foo-bar-baz"]

\* The layer a RetryClient in the chain makes its attempts on.
RetryInner == IF InChain("LoggingClient") THEN "LoggingClient" ELSE "MockClient"

TerminalStates == {"Success", "PermanentFailure", "Exhausted"}

\* C12: in a call through the RetryClient, m attempts on the inner client
\* come with m-1 finished waits (none before the first attempt); the call
\* waits only in state Retrying, after an attempt whose status was observed
\* to be Transient with the budget not used up; every later attempt starts
\* at the end of one wait, after the status of the attempt before it was
\* observed; and once the call is in a terminal state it neither waits nor
\* makes an attempt.
WaitsOnlyBetweenAttempts ==
  /\ [](\A c \in Threads :
          constructed_with = "Policies" =>
            LET m == invocations[c][RetryInner]
            IN /\ waits[c] = (IF m = 0 THEN 0 ELSE m - 1)
               /\ (pc[c] = "Backoff") <=> (retry_state[c] = "Retrying")
               /\ pc[c] = "Backoff" =>
                    /\ Len(seen[c]) = m
                    /\ Last(seen[c]) = "Transient"
                    /\ Len(seen[c]) <= budget
               /\ retry_state[c] \in TerminalStates =>
                    /\ pc[c] \in {"ClientReturn", "done"}
                    /\ waits[c] = Len(seen[c]) - 1)
  /\ [][\A c \in Threads :
          constructed_with = "Policies" =>
            LET m == invocations[c][RetryInner]
                attempt == invocations'[c][RetryInner] # m
                wait == waits'[c] # waits[c]
            IN /\ wait =>
                    /\ waits'[c] = waits[c] + 1
                    /\ pc[c] = "Backoff"
                    /\ attempt
               /\ attempt =>
                    /\ invocations'[c][RetryInner] = m + 1
                    /\ Len(seen[c]) = m
                    /\ wait <=> m > 0
               /\ retry_state[c] \in TerminalStates => ~ wait /\ ~ attempt]_vars

\* C12 witness: a call with the largest budget succeeded on its last
\* permitted attempt, after as many waits as the budget.
SucceededAfterBudgetWaits ==
  /\ constructed_with = "Policies"
  /\ budget = MaxBudget
  /\ pc["A"] = "done"
  /\ retry_state["A"] = "Success"
  /\ invocations["A"][RetryInner] = MaxBudget + 1
  /\ waits["A"] = MaxBudget

\* The number of log lines n invocations of a LoggingClient operation have
\* written when the call is at position at.
LinesWritten(n, at) ==
  IF n = 0
  THEN 0
  ELSE IF at = "LoggingClient"
       THEN 2 * (n - 1)
       ELSE IF at \in {"MockClient", "LoggingReturn"} THEN 2 * n - 1 ELSE 2 * n

\* C13: a LoggingClient in the chain writes two lines per invocation: line
\* 2j-1 is "<context> << <request>", written with the inner call still to
\* return, and line 2j is "<context> >> status, payload", written after the
\* inner call returned, with the status and the response the j-th inner
\* call returned; the context of both is the operation the LoggingClient
\* was invoked on; nothing else is written.
LoggingWritesTwoLinesAroundInnerCall ==
  /\ [](InChain("LoggingClient") =>
          LET r == received["A"]["LoggingClient"]
          IN /\ Len(log) = LinesWritten(invocations["A"]["LoggingClient"], pc["A"])
             /\ \A j \in 1..Len(log) :
                  IF j % 2 = 1
                  THEN log[j] = [context |-> r.op, direction |-> "<<",
                                 request |-> r.request]
                  ELSE /\ log[j].context = r.op
                       /\ log[j].direction = ">>"
                       /\ log[j].status = seen["A"][j \div 2]
             /\ (Len(log) > 0 /\ Len(log) % 2 = 0) =>
                  /\ Len(seen["A"]) = Len(log) \div 2
                  /\ Last(log).status = mock_ret["A"][1]
                  /\ Last(log).payload = mock_ret["A"][2])
  /\ [][log' # log =>
          /\ Len(log') = Len(log) + 1
          /\ SubSeq(log', 1, Len(log)) = log
          /\ IF Len(log') % 2 = 1
             THEN /\ pc["A"] = "LoggingClient"
                  /\ pc'["A"] = "MockClient"
                  /\ invocations'["A"]["MockClient"] =
                       invocations["A"]["MockClient"] + 1
             ELSE /\ pc["A"] = "LoggingReturn"
                  /\ invocations'["A"]["MockClient"] =
                       invocations["A"]["MockClient"]
                  /\ Last(log').status = mock_ret["A"][1]
                  /\ Last(log').payload = mock_ret["A"][2]]_vars

\* C13 witness: a LoggingClient under a RetryClient has written four lines,
\* for an inner call that returned Transient and one that returned OK with
\* a payload.
LoggedTransientThenOk ==
  /\ raw_client_ = <<"RetryClient", "LoggingClient", "MockClient">>
  /\ pc["A"] = "RetryInspect"
  /\ Len(log) = 4
  /\ log[1].context = "ListObjects"
  /\ log[2].status = "Transient"
  /\ log[3] = log[1]
  /\ log[4].status = "OK"
  /\ log[4].payload # DefaultResponse("ListObjects")

\* C14: a call that reached the RetryClient of a Client built with budget N
\* reaches a terminal state (Success, PermanentFailure or Exhausted),
\* whatever statuses its attempts are answered with; it makes at most N+1
\* attempts; it is in a terminal state only after its last attempt, and
\* stays in the terminal state it reached.
RetryCallReachesOneTerminalState ==
  /\ (constructed_with = "Policies" /\ pc["A"] # "idle")
       ~> (retry_state["A"] \in TerminalStates)
  /\ [](constructed_with = "Policies" =>
          /\ invocations["A"][RetryInner] <= budget + 1
          /\ retry_state["A"] \in TerminalStates =>
               /\ seen["A"] # <<>>
               /\ retry_state["A"] = TerminalOf(seen["A"])
               /\ Len(seen["A"]) = invocations["A"][RetryInner]
          /\ pc["A"] = "done" => retry_state["A"] \in TerminalStates)
  /\ [][retry_state["A"] \in TerminalStates =>
          /\ retry_state'["A"] = retry_state["A"]
          /\ invocations'["A"] = invocations["A"]]_vars

\* C14 witness: a call with the largest budget was answered Transient on
\* every retry it was allowed and Permanent on its last attempt, and ended
\* in PermanentFailure.
PermanentOnLastPermittedAttempt ==
  /\ constructed_with = "Policies"
  /\ budget = MaxBudget
  /\ pc["A"] = "done"
  /\ Len(seen["A"]) = MaxBudget + 1
  /\ Last(seen["A"]) = "Permanent"
  /\ retry_state["A"] = "PermanentFailure"
  /\ invocations["A"][RetryInner] = MaxBudget + 1

====
